---- MODULE Spec2Model ----
(***************************************************************************)
(* Batch job tracking (bulkMode) and the persistent download history       *)
(* (downloads) of the dubbing studio front end.                            *)
(*                                                                         *)
(*   downloads  src/apps/frontend/scripts/modules/downloads.js             *)
(*   bulkMode   src/unnamed/part_001 (cards build: whole-list re-render,   *)
(*              savedDownloads / saveMutex) and                            *)
(*              src/apps/frontend/scripts/modules/bulkMode.js (diff build: *)
(*              videoItemsCache with per-item snapshot and saved flag)     *)
(*                                                                         *)
(* JavaScript runs the handlers one at a time; every handler below is one  *)
(* atomic action.  An await splits a handler in two: the part before the   *)
(* request and the continuation that runs when the response arrives.       *)
(***************************************************************************)
EXTENDS Integers, Sequences, FiniteSets, TLC

\* ---------------------------------------------------------------- bounds
\* Largest value of the millisecond clock read through Date.now() in a session.
MaxTime == 3
\* Abnormal events explored per session: storage writes that throw, deletions,
\* records of an unusual shape, handlers during which the clock advances,
\* calls of saveToDownloads from outside the poll callback.
MaxDeviations == 1
\* Batches submitted in a session.
MaxBatches == 2
\* Requests of the page, status requests and bulk-run requests, that are
\* unanswered at the same time.
MaxInflight == 2
\* Items of a batch that the server works on; polls are answered for
\* batches of at most this many items.
MaxItems == 3

\* ------------------------------------------------------ program constants
\* downloads.saveProcess keeps the 50 most recent records.
HistoryLimit == 50
\* downloads.saveToStorage keeps the 25 most recent records on a quota error.
QuotaTrim == 25
\* autoCleanupOldEntries: the milliseconds of a day.
DayMs == 86400000
\* sanitizeName keeps the first 100 characters.
NameLimit == 100
\* The poll callback stops the poller at this many consecutive failures.
PollErrorLimit == 5
\* submitBulkDubbing accepts at most 100 videos.
SubmitLimit == 100

VARIABLES
    processes,      \* downloads.processes: the in-memory history, newest first
    localStorage,   \* the two keys of window.localStorage the module uses
    now,            \* Date.now()
    idSeq,          \* number of identities generated so far
    last,           \* the last call of the downloads API and how it ended
    degraded,       \* a storage write has raised QuotaExceededError
    deviations,     \* abnormal events so far
    build,          \* which bulkMode module the page loads: "cards" or "diff"
    currentBatchId, \* bulkMode.currentBatchId, 0 for null
    pollInterval,   \* bulkMode.pollInterval: a timer handle, 0 for null
    pollErrorCount, \* bulkMode.pollErrorCount
    videoItemsCache,\* bulkMode.videoItemsCache: <<batchId, index>> -> entry
    savedDownloads, \* bulkMode.savedDownloads: names
    saveMutex,      \* bulkMode.saveMutex: names
    progress,       \* the five counters shown in the progress panel
    timers,         \* the interval timers of the window that are live
    inflight,       \* per batch, the status requests not yet answered
    backend,        \* per batch, the items as the server has them
    generation,     \* number of startPolling calls so far
    failRun,        \* failed responses handled since the last start or success
    ev,             \* the last poller event
    modeDisabled,   \* the processing-mode radios are disabled
    submitDisabled, \* the submit button is disabled
    submitting      \* the bulk-run requests not yet answered, in the order sent

storeVars == <<processes, localStorage, now, idSeq, last, degraded, deviations>>

formVars == <<modeDisabled, submitDisabled, submitting>>

pollVars == <<build, currentBatchId, pollInterval, pollErrorCount, videoItemsCache,
              savedDownloads, saveMutex, progress, timers, inflight, backend,
              generation, failRun, ev, modeDisabled, submitDisabled, submitting>>

vars == <<processes, localStorage, now, idSeq, last, degraded, deviations,
          build, currentBatchId, pollInterval, pollErrorCount, videoItemsCache,
          savedDownloads, saveMutex, progress, timers, inflight, backend,
          generation, failRun, ev, modeDisabled, submitDisabled, submitting>>

\* ------------------------------------------------------------ JS helpers
Min(a, b) == IF a <= b THEN a ELSE b

\* Array.prototype.slice(from, to) with 0 <= from <= to.
Slice(s, from, to) == SubSeq(s, from + 1, Min(to, Len(s)))

\* splice(0, 1) whatever the index.
Splice1Head(s, index) == Tail(s)

\* Array.prototype.splice(index, 1) with 0 <= index < length.
Splice1(s, index) == SubSeq(s, 1, index) \o SubSeq(s, index + 2, Len(s))

\* ------------------------------------------------------- record values
\* A JavaScript string is the sequence of its UTF-16 code units, each a
\* number.  A missing (undefined) or empty string is <<>>, a missing
\* timestamp is 0: all of them falsy in JavaScript.
NoName == <<>>
NoUrl == <<>>
NoId == <<>>
\* Records carry the batch item they were built for (<<batch, index>>); the
\* program never reads it.
NoJob == <<0, 0>>

\* ------------------------------------------------------------ localStorage
MainKey == "dubbing_processes"
BackupKey == "dubbing_processes_backup"

\* A stored string, by what JSON.parse makes of it.
NoBlob == [kind |-> "null", items |-> <<>>]         \* getItem returns null
Garbage == [kind |-> "garbage", items |-> <<>>]     \* JSON.parse throws
NotArray == [kind |-> "object", items |-> <<>>]     \* valid JSON, no array

JSONstringify(procs) == [kind |-> "array", items |-> procs]
ParseThrows(blob) == blob.kind = "garbage"
\* JSON.parse followed by the Array.isArray reset of loadProcesses.
ParsedArray(blob) == IF blob.kind = "array" THEN blob.items ELSE <<>>

\* What a localStorage.setItem call does: succeed, or throw.
Ok == "ok"
Quota == "QuotaExceededError"
OtherError == "Error"
\* The outcomes of the write of saveToStorage and of its retry.
WriteOutcomes == {<<Ok, Ok>>, <<Quota, Ok>>, <<Quota, Quota>>, <<OtherError, Ok>>}
Faulty(o) == o # <<Ok, Ok>>

\* -------------------------------------------------------------- downloads
\* The validation that looks at the name only.
NamelessProcessData(pd) == pd.name = NoName

\* saveProcess: the validation of its argument.
InvalidProcessData(pd) == pd.timestamp = 0 \/ pd.name = NoName

\* saveProcess: the duplicate check.
IsDuplicate(procs, pd) ==
    \E i \in 1..Len(procs) :
        procs[i].videoUrl = pd.videoUrl /\ procs[i].timestamp = pd.timestamp

\* saveProcess: a record without an id gets `${Date.now()}-${random}`.
WithId(pd, t, n) == IF pd.id = NoId THEN [pd EXCEPT !.id = <<t, n>>] ELSE pd

\* Unshift without the limit of 50.
UnshiftUnlimited(procs, pd) == <<pd>> \o procs

\* The trim that keeps the whole list.
TrimNothing(procs) == procs

\* The record put at the tail instead of the head.
PushLimited(procs, pd) ==
    IF Len(procs) + 1 > HistoryLimit THEN Slice(procs, 0, HistoryLimit - 1) \o <<pd>>
    ELSE procs \o <<pd>>

\* saveProcess: unshift, then keep the 50 most recent.
Unshift(procs, pd) ==
    LET grown == <<pd>> \o procs
    IN  IF Len(grown) > HistoryLimit THEN Slice(grown, 0, HistoryLimit) ELSE grown

\* saveToStorage: what is kept in memory after a quota error.
TrimOnQuota(procs) == Slice(procs, 0, QuotaTrim)

\* saveToStorage with a retry that cannot fail.
SaveToStorageRetryLands(procs, main, o) ==
    IF o[1] = Ok
    THEN [processes |-> procs, main |-> JSONstringify(procs), ret |-> TRUE, quota |-> FALSE]
    ELSE IF o[1] = Quota
    THEN [processes |-> TrimOnQuota(procs), main |-> JSONstringify(TrimOnQuota(procs)),
          ret |-> TRUE, quota |-> TRUE]
    ELSE [processes |-> procs, main |-> main, ret |-> FALSE, quota |-> FALSE]

\* saveToStorage(): the in-memory list, the main key and the value returned.
SaveToStorage(procs, main, o) ==
    IF o[1] = Ok
    THEN [processes |-> procs, main |-> JSONstringify(procs), ret |-> TRUE, quota |-> FALSE]
    ELSE IF o[1] = Quota
    THEN LET kept == TrimOnQuota(procs)
         IN  IF o[2] = Ok
             THEN [processes |-> kept, main |-> JSONstringify(kept), ret |-> TRUE, quota |-> TRUE]
             ELSE [processes |-> kept, main |-> main, ret |-> FALSE, quota |-> TRUE]
    ELSE [processes |-> procs, main |-> main, ret |-> FALSE, quota |-> FALSE]

\* saveProcess: the outcome for the record pd that was put in the list, s
\* being what saveToStorage made of it.
Accepted(s, pd) ==
    [processes |-> s.processes, main |-> s.main, ret |-> s.ret,
     quota |-> s.quota, accepted |-> TRUE, pd |-> pd]

\* saveProcess(processData) as a function of the state it reads.
SaveProcessResult(procs, main, pd, t, n, o) ==
    IF InvalidProcessData(pd) \/ IsDuplicate(procs, pd)
    THEN [processes |-> procs, main |-> main, ret |-> FALSE, quota |-> FALSE,
          accepted |-> FALSE, pd |-> pd]
    ELSE Accepted(SaveToStorage(Unshift(procs, WithId(pd, t, n)), main, o),
                  WithId(pd, t, n))

\* loadProcesses: the filter of invalid entries.
ValidEntry(p) == p.id # NoId /\ p.name # NoName /\ p.videoUrl # NoUrl

\* loadProcesses(): the catch block copies the corrupt string to the backup
\* key with setItem (outcome ob), which may itself throw.
LoadProcessesResult(procs, ls, ob) ==
    LET stored == ls[MainKey]
    IN  IF ~ParseThrows(stored)
        THEN [processes |-> SelectSeq(ParsedArray(stored), ValidEntry), ls |-> ls, threw |-> FALSE]
        ELSE IF ob = Ok
        THEN [processes |-> <<>>,
              ls |-> [ls EXCEPT ![BackupKey] = stored, ![MainKey] = NoBlob],
              threw |-> FALSE]
        ELSE [processes |-> procs, ls |-> ls, threw |-> TRUE]

\* What loadProcesses would put in memory from the storage ls.
Loaded(ls) == LoadProcessesResult(<<>>, ls, Ok).processes

\* deleteProcess(index): the bounds check.
ValidIndex(procs, index) == index >= 0 /\ index < Len(procs)

\* ----------------------------------------------------- inputs of the store
NameA == <<97>>                  \* "a"
SrcA == <<115, 49>>              \* "s1"
SrcB == <<115, 50>>              \* "s2"
Url(b, i) == <<b, i>>
ExtId == <<0>>

\* The record a caller builds at time t in the usual case.
UsualData(t) ==
    [id |-> NoId, name |-> NameA, timestamp |-> t, videoUrl |-> Url(0, 1),
     source |-> SrcA, status |-> "completed", job |-> NoJob]

\* The records callers pass: the usual one, another result of the same
\* source, a failed job (no result), one with its own id, one of another
\* source, and two that lack a required field.
ProcessData(t) ==
    LET u == UsualData(t)
    IN  {u,
         [u EXCEPT !.videoUrl = Url(0, 2)],
         [u EXCEPT !.videoUrl = NoUrl, !.status = "failed"],
         [u EXCEPT !.id = ExtId],
         [u EXCEPT !.source = SrcB],
         [u EXCEPT !.name = NoName],
         [u EXCEPT !.timestamp = 0]}

\* The history an earlier session left behind after n usual appends, the
\* k-th newest saved k milliseconds before this session began.
EarlierHistory(n) ==
    [k \in 1..n |-> [UsualData(0 - k) EXCEPT !.id = <<0 - k, 0>>]]

\* Lengths of the earlier history: around the two limits.
EarlierLengths == {1, QuotaTrim - 1, QuotaTrim + 1, HistoryLimit - 1, HistoryLimit}

\* ------------------------------------------------------ store operations
\* The last call: the operation, the value returned, whether it threw,
\* whether a write raised a quota error, and for saveProcess whether the
\* record went into the list and the record itself.
Call(op, ret, threw, quota, accepted, pd) ==
    [op |-> op, ret |-> ret, threw |-> threw, quota |-> quota,
     accepted |-> accepted, pd |-> pd]

NoData ==
    [id |-> NoId, name |-> NoName, timestamp |-> 0, videoUrl |-> NoUrl,
     source |-> <<>>, status |-> "none", job |-> NoJob]

Bool(b) == IF b THEN "true" ELSE "false"

\* downloads.saveProcess(pd), its write behaving as o, with room for budget
\* failed writes and unusual records in all.
SaveProcessWithin(pd, o, budget) ==
    LET r == SaveProcessResult(processes, localStorage[MainKey], pd, now, idSeq + 1, o)
        odd == r.accepted /\ pd # UsualData(now)
    IN  /\ ~r.accepted => o = <<Ok, Ok>>
        /\ deviations + (IF Faulty(o) THEN 1 ELSE 0) + (IF odd THEN 1 ELSE 0) <= budget
        /\ processes' = r.processes
        /\ localStorage' = [localStorage EXCEPT ![MainKey] = r.main]
        /\ idSeq' = IF r.accepted /\ pd.id = NoId THEN idSeq + 1 ELSE idSeq
        /\ last' = Call("saveProcess", Bool(r.ret), FALSE, r.quota, r.accepted, r.pd)
        /\ degraded' = (degraded \/ r.quota)
        /\ deviations' = deviations + (IF Faulty(o) THEN 1 ELSE 0) + (IF odd THEN 1 ELSE 0)
        /\ UNCHANGED <<now, pollVars>>

SaveProcess(pd, o) == SaveProcessWithin(pd, o, MaxDeviations)

\* downloads.deleteProcess(index), its write behaving as o.
DeleteProcess(index, o) ==
    IF ValidIndex(processes, index)
    THEN LET s == SaveToStorage(Splice1(processes, index), localStorage[MainKey], o)
         IN  /\ deviations + 1 <= MaxDeviations
             /\ processes' = s.processes
             /\ localStorage' = [localStorage EXCEPT ![MainKey] = s.main]
             /\ last' = Call("deleteProcess", "undefined", FALSE, s.quota, FALSE, NoData)
             /\ degraded' = (degraded \/ s.quota)
             /\ deviations' = deviations + 1
             /\ UNCHANGED <<now, idSeq, pollVars>>
    ELSE /\ o = <<Ok, Ok>>
         /\ last' = Call("deleteProcess", "undefined", FALSE, FALSE, FALSE, NoData)
         /\ UNCHANGED <<processes, localStorage, now, idSeq, degraded, deviations, pollVars>>

\* downloads.clearAll(), confirm() answering confirmed: the history is
\* emptied and the main key removed from the storage.  A clearing of the
\* history counts among the abnormal events; a declined one returns before
\* it touches anything and leaves no trace.
ClearAll(confirmed) ==
    IF confirmed
    THEN /\ deviations + 1 <= MaxDeviations
         /\ processes' = <<>>
         /\ localStorage' = [localStorage EXCEPT ![MainKey] = NoBlob]
         /\ last' = Call("clearAll", "undefined", FALSE, FALSE, FALSE, NoData)
         /\ deviations' = deviations + 1
         /\ UNCHANGED <<now, idSeq, degraded, pollVars>>
    ELSE UNCHANGED vars

\* autoCleanupOldEntries: the records newer than the cutoff.
NewerThan(procs, cutoffTime) == SelectSeq(procs, LAMBDA p : p.timestamp > cutoffTime)

\* downloads.autoCleanupOldEntries(daysToKeep), its write behaving as o.  A
\* cleanup that removes nothing writes nothing and leaves no trace.
AutoCleanupOldEntries(daysToKeep, o) ==
    LET kept == NewerThan(processes, now - daysToKeep * DayMs)
    IN  IF Len(kept) < Len(processes)
        THEN LET s == SaveToStorage(kept, localStorage[MainKey], o)
             IN  /\ deviations + 1 <= MaxDeviations
                 /\ processes' = s.processes
                 /\ localStorage' = [localStorage EXCEPT ![MainKey] = s.main]
                 /\ last' = Call("autoCleanupOldEntries", "undefined", FALSE, s.quota,
                                 FALSE, NoData)
                 /\ degraded' = (degraded \/ s.quota)
                 /\ deviations' = deviations + 1
                 /\ UNCHANGED <<now, idSeq, pollVars>>
        ELSE o = <<Ok, Ok>> /\ UNCHANGED vars

\* downloads.loadProcesses(), the backup write behaving as ob.
LoadProcesses(ob) ==
    LET r == LoadProcessesResult(processes, localStorage, ob)
    IN  /\ ob # Ok => ParseThrows(localStorage[MainKey])
        /\ processes' = r.processes
        /\ localStorage' = r.ls
        /\ last' = Call("loadProcesses", "undefined", r.threw, FALSE, FALSE, NoData)
        /\ UNCHANGED <<now, idSeq, degraded, deviations, pollVars>>

\* A millisecond passes.  Timestamps matter only through equality, so the
\* clock moves on only once the current value is in use.
Tick ==
    /\ now < MaxTime
    /\ \E i \in 1..Len(processes) : processes[i].timestamp = now
    /\ now' = now + 1
    /\ UNCHANGED <<processes, localStorage, idSeq, last, degraded, deviations, pollVars>>

\* ------------------------------------------------------------ the backend
\* The server is outside the repository.  It holds, per batch, the items
\* with their status; an item moves from queued to a final status and never
\* leaves it.  A completed item carries its result locator, or no result
\* at all.
N1 == <<97>>                     \* "a"
N2 == <<98, 47>>                 \* "b/"
\* The names of the items of batch b, as submitted.
BatchNames(b) == IF b = 1 THEN <<N1, N2>> ELSE <<N1>>

\* How item i of batch b may end.
Endings(b, i) ==
    IF b = 1
    THEN IF i = 1 THEN {"completed"} ELSE {"failed", "complete"}
    ELSE IF b = 2 THEN {"completed", "cancelled"} ELSE {"failed"}

\* The item that the server may report as completed without a result.
MayLackResult(b, i) == b = 1 /\ i = 2

\* Whether item i of batch b ending with status may carry a result (TRUE)
\* or none (FALSE).
Results(b, i, status) ==
    IF status \notin {"completed", "complete"} THEN {FALSE}
    ELSE IF MayLackResult(b, i) THEN {TRUE, FALSE} ELSE {TRUE}

Item(name) == [name |-> name, status |-> "queued", url |-> NoUrl]
FinalStatuses == {"completed", "complete", "failed", "cancelled"}
IsCompleted(video) == video.status = "complete" \/ video.status = "completed"

CountOf(items, statuses) == Cardinality({i \in 1..Len(items) : items[i].status \in statuses})

\* The body of a successful /api/jobs/bulk-status/<b> response.
StatusData(items) ==
    [total |-> Len(items),
     completed |-> CountOf(items, {"completed", "complete"}),
     processing |-> CountOf(items, {"processing"}),
     queued |-> CountOf(items, {"queued"}),
     failed |-> CountOf(items, {"failed"}),
     videos |-> items]

\* ---------------------------------------------------------------- bulkMode
CacheKeys == (1..MaxBatches) \X (1..MaxItems)
NoEntry == [present |-> FALSE, data |-> <<>>, saved |-> FALSE]

\* JSON.stringify(video): the snapshot two polls are compared by.
VideoStr(video) == <<video.name, video.status, video.url>>

\* sanitizeName: the characters of the class [<>:"/\\|?*].
Forbidden == {60, 62, 58, 34, 47, 92, 124, 63, 42}
\* sanitizeName: the string 'Video'.
Video == <<86, 105, 100, 101, 111>>
\* The string 'Unknown'.
Unknown == <<85, 110, 107, 110, 111, 119, 110>>

\* String.prototype.trim: the code units it strips, the WhiteSpace and
\* LineTerminator productions of ECMAScript.  U+0009 to U+000D, U+0020,
\* U+00A0, U+1680, U+2000 to U+200A, U+2028, U+2029, U+202F, U+205F, U+3000
\* and U+FEFF.
WhiteSpace ==
    (9..13) \cup {32, 160, 5760} \cup (8192..8202) \cup {8232, 8233, 8239, 8287, 12288, 65279}

RECURSIVE TrimStart(_)
TrimStart(s) == IF s # <<>> /\ Head(s) \in WhiteSpace THEN TrimStart(Tail(s)) ELSE s
RECURSIVE TrimEnd(_)
TrimEnd(s) ==
    IF s # <<>> /\ s[Len(s)] \in WhiteSpace THEN TrimEnd(SubSeq(s, 1, Len(s) - 1)) ELSE s

\* sanitizeName of saveToDownloads and of updateVideoList.
sanitizeName(name) ==
    IF name = NoName
    THEN Video
    ELSE LET replaced == [k \in 1..Len(name) |-> IF name[k] \in Forbidden THEN 95 ELSE name[k]]
             cut == TrimEnd(TrimStart(Slice(replaced, 0, NameLimit)))
         IN  IF cut = <<>> THEN Video ELSE cut

\* The state a handler threads through its saves: the history, the stored
\* blob, the names saved, the names locked, the identities generated, the
\* clock as Date.now() reads it, what the next storage write does, and
\* whether a write has raised a quota error.  slow: a millisecond passes
\* after each Date.now().  exits: the ways the calls of saveToDownloads
\* ended; held: each of them had its name in the lock set at its check.
Saving(procs, main, saved, mutex, cache, n, t, o, q, slow) ==
    [processes |-> procs, main |-> main, saved |-> saved, mutex |-> mutex, cache |-> cache,
     idSeq |-> n, t |-> t, o |-> o, quota |-> q, slow |-> slow, ret |-> FALSE,
     drawn |-> 0, exits |-> {}, held |-> TRUE]

\* The handler state after a saveProcess call that ended as r.
AfterSave(st, r) ==
    [st EXCEPT !.processes = r.processes,
               !.main = r.main,
               !.idSeq = IF r.accepted THEN st.idSeq + 1 ELSE st.idSeq,
               !.t = IF st.slow THEN st.t + 1 ELSE st.t,
               !.o = IF r.accepted THEN <<Ok, Ok>> ELSE st.o,
               !.quota = (st.quota \/ r.quota),
               !.ret = r.ret]

\* downloads.saveProcess(pd) called with Date.now() = st.t.
SaveVia(st, pd) ==
    AfterSave(st, SaveProcessResult(st.processes, st.main, pd, st.t, st.idSeq + 1, st.o))

\* saveToDownloads: the record built for a completed video.
DownloadEntry(video, job, t) ==
    [id |-> NoId, name |-> sanitizeName(video.name), timestamp |-> t,
     videoUrl |-> video.url,
     source |-> IF video.name = NoName THEN Unknown ELSE video.name,
     status |-> "completed", job |-> job]

\* updateVideoList (cards): the record built for a failed video.
FailedEntry(video, job, t) ==
    [id |-> NoId, name |-> sanitizeName(video.name), timestamp |-> t,
     videoUrl |-> NoUrl,
     source |-> IF video.name = NoName THEN Unknown ELSE video.name,
     status |-> "failed", job |-> job]

\* updateVideoList (diff): the record built for a completed video; it has
\* no status field.
DiffEntry(video, job, t) ==
    [id |-> NoId, name |-> video.name, timestamp |-> t, videoUrl |-> video.url,
     source |-> video.name, status |-> "undefined", job |-> job]

\* saveToDownloads: the check against the stored history.
AlreadyStored(procs, video) ==
    \E i \in 1..Len(procs) :
        procs[i].videoUrl = video.url /\ procs[i].name = video.name

\* saveToDownloads: savedDownloads.add(name) when saveProcess returned true.
MarkIfSaved(done, name) ==
    IF done.ret THEN [done EXCEPT !.saved = @ \cup {name}] ELSE done

\* saveToDownloads: this.saveMutex.add(name).
Lock(mutex, name) == mutex \cup {name}

\* The finally block without the delete.
UnlockNever(mutex, name) == mutex

\* saveToDownloads: this.saveMutex.delete(name) of the finally block.
Unlock(mutex, name) == mutex \ {name}

\* saveToDownloads ended in the given way.
Exit(st, way) == [st EXCEPT !.exits = @ \cup {way}]

\* saveToDownloads: the try block, entered with the name locked.  For a
\* video without a result, video.result.video_url throws in the callback of
\* existing.some, which runs when the history holds a record; on an empty
\* history the check of the result URL returns.
CheckThenWrite(st, video, job) ==
    LET entered == [st EXCEPT !.held = @ /\ video.name \in st.mutex]
    IN  IF video.url = NoUrl
        THEN Exit(entered, IF entered.processes # <<>> THEN "threw" ELSE "noUrl")
        ELSE IF AlreadyStored(entered.processes, video) THEN Exit(entered, "duplicate")
        ELSE LET done == SaveVia(entered, DownloadEntry(video, job, entered.t))
             IN  Exit(MarkIfSaved(done, video.name),
                      IF done.ret THEN "saved" ELSE "notSaved")

\* bulkMode.saveToDownloads(video).
SaveToDownloads(st, video, job) ==
    IF video.name \in st.mutex THEN Exit(st, "busy")
    ELSE [CheckThenWrite([st EXCEPT !.mutex = Lock(@, video.name)], video, job)
             EXCEPT !.mutex = Unlock(@, video.name)]

\* One item of the video list is written to the page.
Drawn(st) == [st EXCEPT !.drawn = @ + 1]

\* renderVideoCard: the save of a completed video that has a download link.
RenderVideoCard(st, video, job) ==
    IF IsCompleted(video) /\ video.url # NoUrl /\ video.name \notin st.saved
    THEN [SaveToDownloads(st, video, job) EXCEPT !.saved = @ \cup {video.name}]
    ELSE st

\* updateVideoList (cards): the auto-save of a completed video.
AutoSave(st, video, job) ==
    IF IsCompleted(video) /\ video.name \notin st.saved
    THEN SaveToDownloads(st, video, job)
    ELSE st

\* updateVideoList (cards): the tracking of a failed video.
TrackFailed(st, video, job) ==
    IF video.status = "failed" /\ video.name \notin st.saved
    THEN [SaveVia(st, FailedEntry(video, job, st.t)) EXCEPT !.saved = @ \cup {video.name}]
    ELSE st

\* updateVideoList (cards): what the loop body does for one video.
CardsItem(st, video, job) ==
    Drawn(TrackFailed(AutoSave(RenderVideoCard(st, video, job), video, job), video, job))

\* An item whose snapshot differs from every cached one.
AlwaysChanged(cached, video) == FALSE

\* updateVideoList (diff): the item's snapshot is the one cached for its key.
NoChange(cached, video) == cached.present /\ cached.data = VideoStr(video)

\* updateVideoList (diff): what the loop body does for the video at index
\* (from 1), batch being this.currentBatchId.
DiffItem(st, batch, video, index, job) ==
    LET key == <<batch, index>>
        cached == st.cache[key]
        entry(saved) == [present |-> TRUE, data |-> VideoStr(video), saved |-> saved]
    IN  IF NoChange(cached, video) THEN st
        ELSE Drawn(IF video.url # NoUrl
                   THEN IF video.status = "completed" /\ ~cached.saved
                        THEN [SaveVia(st, DiffEntry(video, job, st.t))
                                 EXCEPT !.cache[key] = entry(TRUE)]
                        ELSE [st EXCEPT !.cache[key] = entry(cached.saved)]
                   ELSE [st EXCEPT !.cache[key] = entry(FALSE)])

\* updateVideoList(videos): the loop over videos[from..], for the response of
\* batch b handled while this.currentBatchId = batch.  The bulkMode of
\* downloads.js ("legacy") renders the items and does nothing else.
RECURSIVE UpdateVideoList(_, _, _, _, _, _)
UpdateVideoList(bld, st, batch, b, videos, from) ==
    IF from > Len(videos) THEN st
    ELSE UpdateVideoList(bld,
                         IF bld = "cards"
                         THEN CardsItem(st, videos[from], <<b, from>>)
                         ELSE IF bld = "diff"
                         THEN DiffItem(st, batch, videos[from], from, <<b, from>>)
                         ELSE Drawn(st),
                         batch, b, videos, from + 1)

\* updateProgress: the counters of the progress panel, shown being what it
\* showed before.  Only the cards build writes the total.
ShownCounters(bld, data, shown) ==
    [total |-> IF bld = "cards" THEN data.total ELSE shown.total,
     completed |-> data.completed, processing |-> data.processing,
     failed |-> data.failed, queued |-> data.queued]

\* The poll callback: the batch is complete.
BatchDone(data) == data.completed + data.failed >= data.total

\* The poll callback, try branch: what becomes of this.pollErrorCount.  The
\* bulkMode of downloads.js leaves it alone.
ErrorCountAfterSuccess(bld, count) == IF bld = "legacy" THEN count ELSE 0

\* The error threshold one failure later.
TooManyErrorsLate(count) == count > PollErrorLimit

\* The poll callback: the error threshold is reached.
TooManyErrors(count) == count >= PollErrorLimit

\* ------------------------------------------------------- the history store
NoProgress == [total |-> 0, completed |-> 0, processing |-> 0, failed |-> 0, queued |-> 0]
NoEvent ==
    [op |-> "none", batch |-> 0, ok |-> FALSE, live |-> FALSE, drawn |-> 0,
     exits |-> {}, held |-> TRUE]

\* bulkMode as the module object is created.
InitBulkMode ==
    /\ currentBatchId = 0
    /\ pollInterval = 0
    /\ pollErrorCount = 0
    /\ videoItemsCache = [k \in CacheKeys |-> NoEntry]
    /\ savedDownloads = {}
    /\ saveMutex = {}
    /\ progress = NoProgress
    /\ timers = {}
    /\ inflight = [b \in 1..MaxBatches |-> 0]
    /\ backend = [b \in 1..MaxBatches |-> <<>>]
    /\ generation = 0
    /\ failRun = 0
    /\ ev = NoEvent
    /\ modeDisabled = FALSE
    /\ submitDisabled = FALSE
    /\ submitting = <<>>

InitStore ==
    /\ build = "cards"
    /\ InitBulkMode
    /\ processes = <<>>
    /\ localStorage \in {[k \in {MainKey, BackupKey} |-> IF k = MainKey THEN b ELSE NoBlob] :
                             b \in {NoBlob, Garbage, NotArray}
                                   \cup {JSONstringify(EarlierHistory(n)) : n \in EarlierLengths}}
    /\ now = 1
    /\ idSeq = 0
    /\ last = Call("none", "undefined", FALSE, FALSE, FALSE, NoData)
    /\ degraded = FALSE
    /\ deviations = 0

NextStore ==
    \/ \E pd \in ProcessData(now), o \in WriteOutcomes : SaveProcess(pd, o)
    \/ \E index \in {-1, 1, Len(processes)}, o \in WriteOutcomes :
            DeleteProcess(index, o)
    \/ \E ob \in {Ok, Quota} : LoadProcesses(ob)
    \/ \E confirmed \in BOOLEAN : ClearAll(confirmed)
    \/ \E daysToKeep \in {0, 1}, o \in WriteOutcomes :
            AutoCleanupOldEntries(daysToKeep, o)
    \/ Tick

SpecStore == InitStore /\ [][NextStore]_vars

\* The store with room for one more unusual record than SpecStore has, every
\* write succeeding.
NextIds ==
    \/ \E pd \in ProcessData(now) : SaveProcessWithin(pd, <<Ok, Ok>>, MaxDeviations + 1)
    \/ LoadProcesses(Ok)
    \/ Tick

SpecIds == InitStore /\ [][NextIds]_vars

\* ------------------------------------------------------ poller operations
\* The last poller event: the operation, the batch it was for, how it ended,
\* and for startPolling and a failed poll whether the poller held a timer
\* when the event began; for a handler that saves, the items it drew, the
\* ways its saveToDownloads calls ended and whether each of them held the
\* lock at its check and at its write.
Event(op, batch, ok, live) ==
    [op |-> op, batch |-> batch, ok |-> ok, live |-> live, drawn |-> 0,
     exits |-> {}, held |-> TRUE]

\* startPolling without the clearInterval.
TimersAfterStartKeepingOld(live, handle, new) == live \cup {new}

\* startPolling: clearInterval of the previous handle, then setInterval.
TimersAfterStart(live, handle, new) == (live \ {handle}) \cup {new}

\* The handle dropped without clearInterval.
TimersAfterForget(live, handle) == live

\* The poll callback: clearInterval(this.pollInterval).
TimersAfterStop(live, handle) == live \ {handle}

\* startPolling: what becomes of the item cache.
CacheAfterStart(bld, cache) ==
    IF bld = "cards" THEN [k \in CacheKeys |-> NoEntry] ELSE cache

\* The batch as the server creates it from the names of its items.
NewBatch(names) == [i \in 1..Len(names) |-> Item(names[i])]

\* The end of a successful submitBulkDubbing, the server having created
\* batch b with items: the progress panel shows result.total;
\* this.currentBatchId = b; this.startPolling(b).  The timer handle of the
\* b-th setInterval call is b.
Started(b, items) ==
    /\ backend' = [backend EXCEPT ![b] = items]
    /\ progress' = [progress EXCEPT !.total = Len(items), !.queued = Len(items)]
    /\ timers' = TimersAfterStart(timers, pollInterval, b)
    /\ pollInterval' = b
    /\ pollErrorCount' = 0
    /\ currentBatchId' = b
    /\ videoItemsCache' = CacheAfterStart(build, videoItemsCache)
    /\ generation' = b
    /\ failRun' = 0
    /\ ev' = Event("startPolling", b, TRUE, pollInterval # 0)
    /\ UNCHANGED <<storeVars, build, savedDownloads, saveMutex, inflight>>

RECURSIVE SumTo(_, _)
SumTo(f, n) == IF n = 0 THEN 0 ELSE f[n] + SumTo(f, n - 1)
InflightTotal(f) == SumTo(f, MaxBatches)
\* The requests of the page not yet answered: status requests and bulk-run
\* requests.
Unanswered(f, pending) == InflightTotal(f) + Len(pending)

\* The interval timer of batch b fires: the callback sends the status request
\* for b and suspends at the await.
TimerFire(b) ==
    /\ b \in timers
    /\ Unanswered(inflight, submitting) < MaxInflight
    /\ inflight' = [inflight EXCEPT ![b] = @ + 1]
    /\ UNCHANGED <<storeVars, formVars, build, currentBatchId, pollInterval, pollErrorCount,
                   videoItemsCache, savedDownloads, saveMutex, progress, timers,
                   backend, generation, failRun, ev>>

\* The server finishes item i of batch b with status, a completed item
\* with its result or with none.  The page sees the server only through
\* the answers to its requests, so the step is taken while a request of b
\* is unanswered.
Finish(b, i, status, result) ==
    /\ b <= generation
    /\ i \in 1..Len(backend[b])
    /\ inflight[b] > 0
    /\ backend[b][i].status \notin FinalStatuses
    /\ backend' = [backend EXCEPT ![b][i].status = status,
                                  ![b][i].url = IF result THEN Url(b, i) ELSE NoUrl]
    /\ UNCHANGED <<storeVars, formVars, build, currentBatchId, pollInterval, pollErrorCount,
                   videoItemsCache, savedDownloads, saveMutex, progress, timers,
                   inflight, generation, failRun, ev>>

\* The server finishes item i of batch b in one of the ways open to it.
BackendStep(b, i, status, result) ==
    /\ status \in Endings(b, i)
    /\ result \in Results(b, i, status)
    /\ Finish(b, i, status, result)

\* The try branch of the poll callback after the await, for a response data
\* of batch b; st is the outcome of updateVideoList.
HandleData(b, o, slow, data, st) ==
    /\ Faulty(o) => st.o # o
    /\ slow => st.t >= now + 2 /\ st.t <= MaxTime
    /\ deviations + (IF Faulty(o) THEN 1 ELSE 0) + (IF slow THEN 1 ELSE 0) <= MaxDeviations
    /\ inflight' = [inflight EXCEPT ![b] = @ - 1]
    /\ pollErrorCount' = ErrorCountAfterSuccess(build, pollErrorCount)
    /\ progress' = ShownCounters(build, data, progress)
    /\ processes' = st.processes
    /\ localStorage' = [localStorage EXCEPT ![MainKey] = st.main]
    /\ savedDownloads' = st.saved
    /\ saveMutex' = st.mutex
    /\ videoItemsCache' = st.cache
    /\ idSeq' = st.idSeq
    /\ now' = st.t
    /\ degraded' = (degraded \/ st.quota)
    /\ deviations' = deviations + (IF Faulty(o) THEN 1 ELSE 0) + (IF slow THEN 1 ELSE 0)
    /\ IF BatchDone(data)
       THEN timers' = TimersAfterStop(timers, pollInterval) /\ pollInterval' = 0
       ELSE UNCHANGED <<timers, pollInterval>>
    /\ failRun' = 0
    /\ ev' = [Event("response", b, TRUE, FALSE)
                 EXCEPT !.drawn = st.drawn, !.exits = st.exits, !.held = st.held]
    /\ UNCHANGED <<last, formVars, build, currentBatchId, backend, generation>>

\* A status request of batch b is answered with the batch as it is now: the
\* continuation of the poll callback after the await, try branch.  The first
\* storage write of the handler behaves as o.
RespondOk(b, o, slow) ==
    /\ inflight[b] > 0
    /\ Len(backend[b]) <= MaxItems
    /\ HandleData(b, o, slow, StatusData(backend[b]),
                  UpdateVideoList(build,
                                  Saving(processes, localStorage[MainKey], savedDownloads,
                                         saveMutex, videoItemsCache, idSeq, now, o, FALSE,
                                         slow),
                                  currentBatchId, b, backend[b], 1))

\* A status request of batch b fails (network error or a response that is
\* not ok): the catch branch of the poll callback.
RespondError(b) ==
    /\ inflight[b] > 0
    /\ inflight' = [inflight EXCEPT ![b] = @ - 1]
    /\ pollErrorCount' = pollErrorCount + 1
    /\ IF TooManyErrors(pollErrorCount + 1)
       THEN timers' = TimersAfterStop(timers, pollInterval) /\ pollInterval' = 0
       ELSE UNCHANGED <<timers, pollInterval>>
    /\ failRun' = failRun + 1
    /\ ev' = Event("response", b, FALSE, pollInterval # 0)
    /\ UNCHANGED <<storeVars, formVars, build, currentBatchId, videoItemsCache, savedDownloads,
                   saveMutex, progress, backend, generation>>

\* The beforeunload handler registered by init.
BeforeUnload ==
    /\ timers' = IF pollInterval # 0 THEN TimersAfterStop(timers, pollInterval) ELSE timers
    /\ pollInterval' = 0
    /\ ev' = Event("beforeunload", currentBatchId, TRUE, FALSE)
    /\ UNCHANGED <<storeVars, formVars, build, currentBatchId, pollErrorCount, videoItemsCache,
                   savedDownloads, saveMutex, progress, inflight, backend, generation,
                   failRun>>

\* The effect of the saveToDownloads calls of one task that ended as st.
HandleSave(b, o, slow, st) ==
    /\ Faulty(o) => st.o # o
    /\ slow => st.t > now /\ st.t <= MaxTime
    /\ deviations + 1 + (IF Faulty(o) THEN 1 ELSE 0) <= MaxDeviations
    /\ processes' = st.processes
    /\ localStorage' = [localStorage EXCEPT ![MainKey] = st.main]
    /\ savedDownloads' = st.saved
    /\ saveMutex' = st.mutex
    /\ idSeq' = st.idSeq
    /\ now' = st.t
    /\ degraded' = (degraded \/ st.quota)
    /\ deviations' = deviations + 1 + (IF Faulty(o) THEN 1 ELSE 0)
    /\ ev' = [Event("saveToDownloads", b, st.ret, FALSE)
                 EXCEPT !.exits = st.exits, !.held = st.held]
    /\ UNCHANGED <<last, formVars, build, currentBatchId, pollInterval, pollErrorCount,
                   videoItemsCache, progress, timers, inflight, backend,
                   generation, failRun>>

\* Two callers of bulkMode.saveToDownloads(video) (cards) in one task, one
\* after the other, for the completed item i of batch b; the first storage
\* write behaves as o.
SaveToDownloadsCall(b, i, o, slow) ==
    /\ build = "cards"
    /\ b <= generation
    /\ i \in 1..Len(backend[b])
    /\ IsCompleted(backend[b][i])
    /\ HandleSave(b, o, slow,
                  SaveToDownloads(
                      SaveToDownloads(Saving(processes, localStorage[MainKey], savedDownloads,
                                             saveMutex, videoItemsCache, idSeq, now, o, FALSE,
                                             slow),
                                      backend[b][i], <<b, i>>),
                      backend[b][i], <<b, i>>))

\* ------------------------------------------------------------- submission
\* The text of the URL box as its lines; a line is blank or holds a URL.
BlankLine == <<32, 12288>>       \* a space and an ideographic space
UrlLine == <<117>>               \* "u"
UrlsText(urls, blanks) == [k \in 1..(urls + blanks) |-> IF k <= blanks THEN BlankLine ELSE UrlLine]

\* String.prototype.trim.
Trim(s) == TrimEnd(TrimStart(s))

\* urlsText?.trim() is truthy.
HasText(lines) == \E k \in 1..Len(lines) : Trim(lines[k]) # <<>>

\* urlsText.split('\n').filter(u => u.trim()).length
UrlCount(lines) == Cardinality({k \in 1..Len(lines) : Trim(lines[k]) # <<>>})

\* What the user has entered: the number of files chosen, the URL box, the
\* number of target language tags.
Form(files, lines, langs) == [files |-> files, lines |-> lines, langs |-> langs]

\* submitBulkDubbing: nothing to submit.
NothingToSubmit(form) == form.files = 0 /\ ~HasText(form.lines)

\* submitBulkDubbing: totalVideos.
TotalVideos(form) == form.files + UrlCount(form.lines)

\* The limit applied to the files alone.
TooManyFiles(form) == form.files > SubmitLimit

\* The limit reached at 100 videos.
TooManyVideosAtLimit(form) == TotalVideos(form) >= SubmitLimit

\* submitBulkDubbing: the limit of 100 videos.
TooManyVideos(form) == TotalVideos(form) > SubmitLimit

\* submitBulkDubbing (cards): no target language tag.
NoTargetLangs(bld, form) == bld = "cards" /\ form.langs = 0

\* The forms submitted: empty, blank lines only, one file, three URLs among
\* blank lines, the limit reached by files and by files and a URL, the limit
\* passed by one URL and by the last of three, and a file without a target
\* language.
Forms ==
    {Form(0, UrlsText(0, 0), 1), Form(0, UrlsText(0, 2), 1),
     Form(1, UrlsText(0, 0), 1), Form(0, UrlsText(3, 1), 1),
     Form(SubmitLimit, UrlsText(0, 0), 1), Form(SubmitLimit - 1, UrlsText(1, 1), 1),
     Form(SubmitLimit, UrlsText(1, 0), 1), Form(SubmitLimit - 2, UrlsText(3, 0), 1),
     Form(1, UrlsText(0, 0), 0)}

N3 == <<99>>                     \* "c"
N4 == <<100>>                    \* "d"
\* The names the server gives the n items of a submitted batch.
SubmittedNames(n) ==
    [i \in 1..n |-> IF i = 1 THEN N1 ELSE IF i = 2 THEN N2 ELSE IF i = 3 THEN N3 ELSE N4]

\* The sequence s without its k-th element.
Without(s, k) == SubSeq(s, 1, k - 1) \o SubSeq(s, k + 1, Len(s))

\* submitBulkDubbing() up to the await of the bulk-run request.  The submit
\* listener calls it on every submit event and keeps no flag of a request in
\* flight, so it runs whatever the state of the controls.  A request is
\* sent while the server has a batch left to answer it with.
SubmitBulkDubbing(form) ==
    /\ IF NothingToSubmit(form) \/ TooManyVideos(form)
       THEN /\ ev' = Event("submitRejected", 0, FALSE, FALSE)
            /\ UNCHANGED formVars
       ELSE IF NoTargetLangs(build, form)
       THEN /\ modeDisabled' = FALSE
            /\ ev' = Event("submitNoLangs", 0, FALSE, FALSE)
            /\ UNCHANGED <<submitDisabled, submitting>>
       ELSE /\ Unanswered(inflight, submitting) < MaxInflight
            /\ generation + Len(submitting) < MaxBatches
            /\ modeDisabled' = (build # "legacy")
            /\ submitDisabled' = TRUE
            /\ submitting' = Append(submitting, TotalVideos(form))
            /\ ev' = Event("submit", 0, TRUE, FALSE)
    /\ UNCHANGED <<storeVars, build, currentBatchId, pollInterval, pollErrorCount,
                   videoItemsCache, savedDownloads, saveMutex, progress, timers,
                   inflight, backend, generation, failRun>>

\* The k-th of the unanswered bulk-run requests is answered with a new
\* batch: the rest of the try block of submitBulkDubbing.
SubmitOk(k) ==
    /\ k \in 1..Len(submitting)
    /\ generation + 1 <= MaxBatches
    /\ Started(generation + 1, NewBatch(SubmittedNames(submitting[k])))
    /\ modeDisabled' = FALSE
    /\ submitDisabled' = FALSE
    /\ submitting' = Without(submitting, k)

\* The files of the next batch are submitted: submitBulkDubbing() up to the
\* await, for a form that passes the validation.
SubmitNext ==
    /\ generation + Len(submitting) < MaxBatches
    /\ SubmitBulkDubbing(Form(Len(BatchNames(generation + Len(submitting) + 1)),
                              UrlsText(0, 0), 1))

\* The catch block without the re-enabling of the submit button.
SubmitFailLeavesButton(k) ==
    /\ k \in 1..Len(submitting)
    /\ deviations < MaxDeviations
    /\ deviations' = deviations + 1
    /\ modeDisabled' = FALSE
    /\ submitting' = Without(submitting, k)
    /\ ev' = Event("submitFailed", 0, FALSE, FALSE)
    /\ UNCHANGED <<processes, localStorage, now, idSeq, last, degraded, submitDisabled,
                   build, currentBatchId, pollInterval, pollErrorCount,
                   videoItemsCache, savedDownloads, saveMutex, progress, timers,
                   inflight, backend, generation, failRun>>

\* The k-th of the unanswered bulk-run requests fails (transport error or
\* a response that is not ok): the catch block of submitBulkDubbing.
SubmitFail(k) ==
    /\ k \in 1..Len(submitting)
    /\ deviations < MaxDeviations
    /\ deviations' = deviations + 1
    /\ modeDisabled' = FALSE
    /\ submitDisabled' = FALSE
    /\ submitting' = Without(submitting, k)
    /\ ev' = Event("submitFailed", 0, FALSE, FALSE)
    /\ UNCHANGED <<processes, localStorage, now, idSeq, last, degraded,
                   build, currentBatchId, pollInterval, pollErrorCount,
                   videoItemsCache, savedDownloads, saveMutex, progress, timers,
                   inflight, backend, generation, failRun>>

\* How item i of a submitted batch ends: the third fails, the others
\* complete.
SubmittedEnding(i) == IF i = 3 THEN "failed" ELSE "completed"

\* --------------------------------------------------------------- the poller
InitPoll ==
    /\ build \in {"cards", "diff"}
    /\ InitBulkMode
    /\ processes = <<>>
    /\ localStorage = [k \in {MainKey, BackupKey} |-> NoBlob]
    /\ now = 1
    /\ idSeq = 0
    /\ last = Call("none", "undefined", FALSE, FALSE, FALSE, NoData)
    /\ degraded = FALSE
    /\ deviations = 0

\* The poller and its schedule: starts, ticks, answers, failures, teardown.
\* Storage writes succeed and the clock stands still.
NextPoll ==
    \/ SubmitNext
    \/ SubmitOk(1)
    \/ \E b \in 1..MaxBatches : TimerFire(b)
    \/ \E b \in 1..MaxBatches, i \in 1..MaxItems, status \in FinalStatuses,
          result \in BOOLEAN :
            BackendStep(b, i, status, result)
    \/ \E b \in 1..MaxBatches : RespondOk(b, <<Ok, Ok>>, FALSE)
    \/ \E b \in 1..MaxBatches : RespondError(b)
    \/ BeforeUnload

SpecPoll == InitPoll /\ [][NextPoll]_vars

\* The bulkMode that downloads.js exports: its init registers no
\* beforeunload handler.
InitLegacy ==
    /\ build = "legacy"
    /\ InitBulkMode
    /\ processes = <<>>
    /\ localStorage = [k \in {MainKey, BackupKey} |-> NoBlob]
    /\ now = 1
    /\ idSeq = 0
    /\ last = Call("none", "undefined", FALSE, FALSE, FALSE, NoData)
    /\ degraded = FALSE
    /\ deviations = 0

NextLegacy ==
    \/ SubmitNext
    \/ SubmitOk(1)
    \/ \E b \in 1..MaxBatches : TimerFire(b)
    \/ \E b \in 1..MaxBatches, i \in 1..MaxItems, status \in FinalStatuses,
          result \in BOOLEAN :
            BackendStep(b, i, status, result)
    \/ \E b \in 1..MaxBatches : RespondOk(b, <<Ok, Ok>>, FALSE)
    \/ \E b \in 1..MaxBatches : RespondError(b)

SpecLegacy == InitLegacy /\ [][NextLegacy]_vars

\* A status request of batch b resolves, as an answer or as a failure.
Resolve(b) == RespondOk(b, <<Ok, Ok>>, FALSE) \/ RespondError(b)

\* The poller under fair scheduling: a live interval timer keeps firing and
\* every status request resolves.
NextLive ==
    \/ SubmitNext
    \/ SubmitOk(1)
    \/ \E b \in 1..MaxBatches : TimerFire(b)
    \/ \E b \in 1..MaxBatches, i \in 1..MaxItems, status \in FinalStatuses,
          result \in BOOLEAN :
            BackendStep(b, i, status, result)
    \/ \E b \in 1..MaxBatches : Resolve(b)

\* Every status request of batch b resolves: again and again none is
\* unanswered, or one of them is answered.
EveryFetchResolves(b) ==
    []<>(inflight[b] = 0) \/ []<><<inflight'[b] < inflight[b]>>_vars

SpecLive ==
    /\ InitPoll
    /\ [][NextLive]_vars
    /\ \A b \in 1..MaxBatches : WF_vars(TimerFire(b)) /\ EveryFetchResolves(b)

\* The save path: every status request is answered; storage writes may
\* throw, time passes, saveToDownloads is called twice in a task.
NextSave ==
    \/ SubmitNext
    \/ SubmitOk(1)
    \/ \E b \in 1..MaxBatches : TimerFire(b)
    \/ \E b \in 1..MaxBatches, i \in 1..MaxItems, status \in FinalStatuses,
          result \in BOOLEAN :
            BackendStep(b, i, status, result)
    \/ \E b \in 1..MaxBatches, o \in WriteOutcomes, slow \in BOOLEAN : RespondOk(b, o, slow)
    \/ \E b \in 1..MaxBatches, i \in 1..MaxItems, o \in WriteOutcomes, slow \in BOOLEAN :
            SaveToDownloadsCall(b, i, o, slow)
    \/ Tick

SpecSave == InitPoll /\ [][NextSave]_vars

\* The save path with the clock standing still: storage writes may throw,
\* saveToDownloads is called twice in a task.
NextLock ==
    \/ SubmitNext
    \/ SubmitOk(1)
    \/ \E b \in 1..MaxBatches : TimerFire(b)
    \/ \E b \in 1..MaxBatches, i \in 1..MaxItems, status \in FinalStatuses,
          result \in BOOLEAN :
            BackendStep(b, i, status, result)
    \/ \E b \in 1..MaxBatches, o \in WriteOutcomes : RespondOk(b, o, FALSE)
    \/ \E b \in 1..MaxBatches, i \in 1..MaxItems, o \in WriteOutcomes :
            SaveToDownloadsCall(b, i, o, FALSE)

SpecLock == InitPoll /\ [][NextLock]_vars

\* Submissions of every kind and the polling of the batches they start;
\* storage writes succeed, every status request is answered, and the server
\* gets as far as the first item of the first batch.
NextSubmit ==
    \/ \E form \in Forms : SubmitBulkDubbing(form)
    \/ \E k \in 1..MaxInflight : SubmitOk(k)
    \/ \E k \in 1..MaxInflight : SubmitFail(k)
    \/ \E b \in 1..MaxBatches : TimerFire(b)
    \/ Finish(1, 1, SubmittedEnding(1), TRUE)
    \/ \E b \in 1..MaxBatches : RespondOk(b, <<Ok, Ok>>, FALSE)

SpecSubmit == InitPoll /\ [][NextSubmit]_vars

\* Three URLs are submitted and the batch is followed to its end.
ThreeUrls == Form(0, UrlsText(3, 1), 1)

NextThreeUrls ==
    \/ SubmitBulkDubbing(ThreeUrls)
    \/ SubmitOk(1)
    \/ \E b \in 1..MaxBatches : TimerFire(b)
    \/ \E b \in 1..MaxBatches, i \in 1..MaxItems : Finish(b, i, SubmittedEnding(i), SubmittedEnding(i) = "completed")
    \/ \E b \in 1..MaxBatches : RespondOk(b, <<Ok, Ok>>, FALSE)

SpecThreeUrls == InitPoll /\ [][NextThreeUrls]_vars

\* ------------------------------------------------- properties of the store
Has(procs, pd) == \E i \in 1..Len(procs) : procs[i] = pd

\* C6: after any sequence of saveProcess, deleteProcess and loadProcesses
\* calls the in-memory history never holds more than 50 records.
C6_AtMostFifty == Len(processes) <= HistoryLimit

\* C6: an append to a full history has dropped the oldest record.
C6_Witness ==
    /\ last.op = "saveProcess" /\ last.accepted
    /\ Len(processes) = HistoryLimit
    /\ processes[1] = last.pd
    /\ processes[HistoryLimit].timestamp = 0 - (HistoryLimit - 1)

\* C8: when the write of saveProcess raises a quota error and the retry
\* after the trim to 25 throws as well, saveProcess returns false, does not
\* throw, and the record it was appending is not in what the next
\* loadProcesses reads from storage.
C8_FailedRetryNotStored ==
    [][\A pd \in ProcessData(now) :
          SaveProcess(pd, <<Quota, Quota>>)
          => /\ last'.ret = "false"
             /\ ~last'.threw
             /\ ~Has(Loaded(localStorage'), WithId(pd, now, idSeq + 1))]_vars

\* C8: a saveProcess whose write and retry both threw, on a history that the
\* quota handling trimmed to 25.
C8_Witness ==
    /\ last.op = "saveProcess" /\ last.accepted
    /\ last.quota /\ last.ret = "false"
    /\ Len(processes) = QuotaTrim
    /\ processes[1] = last.pd

\* C9 (as claimed): loadProcesses on a stored string that does not parse
\* leaves memory empty, the string under the backup key and the main key
\* cleared, and does not throw, whatever the backup write does.
C9_CorruptBlobQuarantined ==
    [][\A ob \in {Ok, Quota} :
          (LoadProcesses(ob) /\ ParseThrows(localStorage[MainKey]))
          => /\ processes' = <<>>
             /\ localStorage'[BackupKey] = localStorage[MainKey]
             /\ localStorage'[MainKey] = NoBlob
             /\ ~last'.threw]_vars

\* The key of the duplicate check as the specification words it.
SameSourceAndTime(p, pd) == p.source = pd.source /\ p.timestamp = pd.timestamp

\* This step is a saveProcess call (the only steps that leave
\* last.op = "saveProcess" are that call and the passing of time).
SaveProcessStep == last'.op = "saveProcess" /\ now' = now

\* saveProcess(pd) was a no-op in this step.
NoOpSave ==
    /\ last'.ret = "false"
    /\ processes' = processes
    /\ localStorage' = localStorage

\* C10 (as claimed): saveProcess with a record whose (source, timestamp) pair
\* is that of a record in the history is a no-op.
C10_DuplicateSourceIsNoOp ==
    [][(SaveProcessStep /\ \E i \in 1..Len(processes) : SameSourceAndTime(processes[i], last'.pd))
          => NoOpSave]_vars

\* C11: an accepted saveProcess puts the record at the head and keeps the
\* records that were there in their order; when no write raises a quota error
\* the history grows by one up to 50, so that the 51st record of a row of
\* distinct ones evicts the oldest.
C11_HeadInsertKeepsOrder ==
    [][(SaveProcessStep /\ last'.accepted)
          => /\ processes' = Slice(<<last'.pd>> \o processes, 0, Len(processes'))
             /\ ~last'.quota => Len(processes') = Min(Len(processes) + 1, HistoryLimit)]_vars

\* C11: the 51st record is at the head, the 50 most recent are kept in
\* reverse insertion order and the oldest is gone.
C11_Witness ==
    /\ last.op = "saveProcess" /\ last.accepted /\ ~last.quota
    /\ Len(processes) = HistoryLimit
    /\ processes[1] = last.pd /\ last.pd.timestamp = now
    /\ \A k \in 2..HistoryLimit : processes[k].timestamp = 0 - (k - 1)

\* C7 (as claimed): right after a write that raised a quota error the
\* history holds at most 25 records, the most recent ones, and from then on
\* its length passes 25 only in a saveProcess that returned true.
C7_TrimmedUntilSuccessfulAppend ==
    [][/\ (last' # last /\ last'.quota)
          => /\ Len(processes') <= QuotaTrim
             /\ \/ /\ last'.op = "saveProcess"
                   /\ processes' = Slice(<<last'.pd>> \o processes, 0, QuotaTrim)
                \/ /\ last'.op = "deleteProcess"
                   /\ \E index \in 0..(Len(processes) - 1) :
                         processes' = Slice(Splice1(processes, index), 0, QuotaTrim)
       /\ (degraded /\ Len(processes) <= QuotaTrim /\ Len(processes') > QuotaTrim)
          => (last'.op = "saveProcess" /\ last'.ret = "true")]_vars

\* ------------------------------------------------ properties of the poller
\* C3: there is never more than one live interval timer, whatever the
\* sequence of startPolling calls, ticks and responses.
C3_OneTimer == Cardinality(timers) <= 1

\* C3: startPolling was called while the timer of the previous batch was
\* live, and only the new timer is left.
C3_Witness ==
    /\ ev.op = "startPolling" /\ ev.live
    /\ generation > 1
    /\ timers = {generation}

\* C4: once 5 poll failures in a row have been handled the poller is stopped
\* (timer cleared, handle null); a failed poll stops a running poller only as
\* the fifth in a row or later; a stopped poller gets a timer again only by
\* a startPolling call.
C4_StopsAtFiveFailures ==
    [][/\ failRun' >= 5 => (pollInterval' = 0 /\ timers' = {})
       /\ \A b \in 1..MaxBatches :
             (RespondError(b) /\ pollInterval # 0 /\ pollInterval' = 0) => failRun' >= 5
       /\ ((pollInterval = 0 /\ pollInterval' # 0) \/ (timers = {} /\ timers' # {}))
             => generation' = generation + 1]_vars

\* C4: the fifth failure in a row has stopped a running poller.
C4_Witness ==
    /\ ev.op = "response" /\ ~ev.ok /\ ev.live
    /\ failRun = 5
    /\ pollInterval = 0 /\ timers = {}

\* C2 (as claimed): a response to a request made for an earlier batch,
\* handled after startPolling began a new batch, changes neither the item
\* cache, nor the progress counters, nor the failure counter, nor the
\* history.
C2_StaleResponseDiscarded ==
    [][\A b \in 1..MaxBatches :
          ((RespondOk(b, <<Ok, Ok>>, FALSE) \/ RespondError(b)) /\ b < currentBatchId)
          => UNCHANGED <<videoItemsCache, progress, pollErrorCount, processes, localStorage>>]_vars

\* The records of the history made for the batch item job.
RecordsFor(procs, job) == {k \in 1..Len(procs) : procs[k].job = job}

\* C1 (as claimed): after a poll response is handled, every item it shows
\* as completed, complete or failed has exactly one record in the history.
C1_OneRecordPerTerminalItem ==
    [][\A b \in 1..MaxBatches :
          RespondOk(b, <<Ok, Ok>>, FALSE)
          => \A i \in 1..Len(backend[b]) :
                backend[b][i].status \in {"completed", "complete", "failed"}
                => Cardinality(RecordsFor(processes', <<b, i>>)) = 1]_vars

\* The records of the history with the origin and the result of video.
RecordsOf(procs, video) ==
    {k \in 1..Len(procs) : procs[k].source = video.name /\ procs[k].videoUrl = video.url}

\* C5 (as claimed): when two callers save the same completed job in one
\* task, the job not being in the history yet and the storage accepting
\* writes, the history gains exactly one record of the job.
C5_TwoCallersOneRecord ==
    [][\A b \in 1..MaxBatches, i \in 1..MaxItems, slow \in BOOLEAN :
          (SaveToDownloadsCall(b, i, <<Ok, Ok>>, slow) /\ RecordsOf(processes, backend[b][i]) = {})
          => /\ Cardinality(RecordsOf(processes', backend[b][i])) = 1
             /\ Len(processes') = Len(processes) + 1]_vars

\* --------------------------------------------- properties of the submission
\* The number of items of a form: its files and its lines that hold a URL.
ItemCount(form) ==
    form.files + Cardinality({k \in 1..Len(form.lines) : form.lines[k] = UrlLine})

\* The step is one of submitBulkDubbing before the request: it leaves the
\* status requests, the server and the batches as they were.
BeforeRequest ==
    /\ ev'.op \in {"submit", "submitRejected", "submitNoLangs"}
    /\ UNCHANGED <<inflight, backend, generation>>

\* C12: a submission with no item or with more than 100 items changes
\* nothing: it sends no request, starts no poller, leaves the history, the
\* current batch and the cache alone, and leaves the mode radios and the
\* submit button as they were, enabled when no request is in flight.
C12_InvalidSubmissionRejected ==
    [][\A form \in Forms :
          (/\ BeforeRequest
           /\ ItemCount(form) = 0 \/ ItemCount(form) > 100
           /\ SubmitBulkDubbing(form))
          => /\ UNCHANGED <<submitting, modeDisabled, submitDisabled>>
             /\ submitting = <<>> => (~modeDisabled' /\ ~submitDisabled')
             /\ UNCHANGED <<timers, pollInterval, currentBatchId, generation, inflight,
                            videoItemsCache, savedDownloads, processes, localStorage>>]_vars

\* C12: a submission was rejected while the poller of an earlier batch was
\* running and the history held a record.
C12_Witness ==
    /\ ev.op = "submitRejected"
    /\ timers # {} /\ processes # <<>>
    /\ submitting = <<>>

\* A successful answer, the one step in which the server's batch count
\* changes, makes the new batch current and starts its poller.
AnswerStartsPoller ==
    generation' # generation => /\ generation' = generation + 1
                /\ currentBatchId' = generation'
                /\ pollInterval' = generation'
                /\ timers' = {generation'}
                /\ ~modeDisabled' /\ ~submitDisabled'

\* C13 (amended): a submission with 1 to 100 items, and in part_001 with at
\* least one target language, sends the request, and a successful answer
\* makes the returned batch current and starts the poller for it.
C13_ValidSubmissionProceeds ==
    [][/\ \A form \in Forms :
             (/\ BeforeRequest
              /\ ItemCount(form) \in 1..100
              /\ build = "cards" => form.langs > 0
              /\ SubmitBulkDubbing(form))
             => submitting' = Append(submitting, ItemCount(form))
       /\ AnswerStartsPoller]_vars

\* C13 (as claimed): every submission with 1 to 100 items sends the request,
\* and a successful answer makes the returned batch current and starts the
\* poller for it.
C13_EverySizedSubmissionProceeds ==
    [][/\ \A form \in Forms :
             (BeforeRequest /\ ItemCount(form) \in 1..100 /\ SubmitBulkDubbing(form))
             => submitting' = Append(submitting, ItemCount(form))
       /\ AnswerStartsPoller]_vars

\* C13: a submission of 100 items was answered and its poller runs.
C13_Witness ==
    /\ ev.op = "startPolling"
    /\ generation > 0
    /\ Len(backend[generation]) = 100
    /\ currentBatchId = generation /\ timers = {generation}
    /\ submitting = <<>>

\* C14: a failed submission re-enables the controls, starts no poller and
\* leaves the current batch, the item cache and the history as they were.
C14_FailedSubmissionLeavesNothing ==
    [][(Len(submitting') < Len(submitting) /\ generation' = generation)
          => /\ ~modeDisabled' /\ ~submitDisabled'
             /\ UNCHANGED <<timers, pollInterval, currentBatchId, videoItemsCache,
                            savedDownloads, processes, localStorage, inflight>>]_vars

\* C14: a submission failed while the poller of an earlier batch was running
\* and the history held a record.
C14_Witness ==
    /\ ev.op = "submitFailed"
    /\ timers # {} /\ processes # <<>>
    /\ ~modeDisabled /\ ~submitDisabled

\* The records with status among procs.
WithStatus(procs, status) == {k \in 1..Len(procs) : procs[k].status = status}

\* C15 (as claimed): three URLs submitted; once a poll reports completed = 2
\* and failed = 1 of total = 3 the poller is stopped, and the history as
\* loaded from the storage holds exactly three records, two completed and
\* one failed.
C15_ThreeUrlsThreeRecords ==
    (/\ generation = 1 /\ ev.op = "response" /\ ev.batch = 1
     /\ progress.total = 3 /\ progress.completed = 2 /\ progress.failed = 1)
    => /\ timers = {} /\ pollInterval = 0
       /\ Len(Loaded(localStorage)) = 3
       /\ Cardinality(WithStatus(Loaded(localStorage), "completed")) = 2
       /\ Cardinality(WithStatus(Loaded(localStorage), "failed")) = 1

\* ------------------------------------------------ properties of the poller
\* The server's batch b shows completed + failed >= total.
AllEnded(b) ==
    CountOf(backend[b], {"completed", "complete"}) + CountOf(backend[b], {"failed"})
        >= Len(backend[b])

\* The cache holds, under the current batch, the state of every item of the
\* server's batch b.
CachePushed(cache, b) ==
    \A i \in 1..Len(backend[b]) :
        /\ cache[<<currentBatchId, i>>].present
        /\ cache[<<currentBatchId, i>>].data = VideoStr(backend[b][i])

\* The step handles a successful status response of batch b.
Answered(b) ==
    /\ b \in 1..MaxBatches
    /\ ev'.op = "response" /\ ev'.ok
    /\ inflight'[b] < inflight[b]

\* The schedule is cancelled when the response shows completed + failed >=
\* total and is left as it was otherwise.
StopsIffAllEnded(b) ==
    IF AllEnded(b)
    THEN timers' = {} /\ pollInterval' = 0
    ELSE UNCHANGED <<timers, pollInterval>>

\* C16 (as claimed): every successful status response is pushed to the item
\* cache, and the schedule is cancelled if and only if the response shows
\* completed + failed >= total.
C16_EveryResponseCached ==
    [][Answered(ev'.batch)
          => /\ CachePushed(videoItemsCache', ev'.batch)
             /\ StopsIffAllEnded(ev'.batch)]_vars

\* C17: the beforeunload handler can run in any state; after it no timer is
\* live and the handle is null, and on a poller that holds no handle it
\* changes nothing.
C17_TeardownIdempotent ==
    [][BeforeUnload
          => /\ timers' = {} /\ pollInterval' = 0
             /\ pollInterval = 0
                => UNCHANGED <<timers, pollInterval, currentBatchId, pollErrorCount,
                               videoItemsCache, savedDownloads, saveMutex, progress,
                               inflight, processes, localStorage>>]_vars

\* C17: the handler has run on a poller that five failures had stopped
\* already.
C17_Witness ==
    /\ ev.op = "beforeunload"
    /\ pollErrorCount >= PollErrorLimit
    /\ timers = {} /\ pollInterval = 0

\* C18 (as claimed): startPolling sets the failure counter to 0 and leaves
\* no entry, and so no saved flag, of an earlier batch in the item cache.
C18_StartClearsCache ==
    [][SubmitOk(1)
          => /\ pollErrorCount' = 0
             /\ \A k \in CacheKeys : ~videoItemsCache'[k].present /\ ~videoItemsCache'[k].saved]_vars

\* Items i of batch b and j of batch c are two completed jobs with one
\* display name and two result locators.
SameNameOtherResult(b, i, c, j) ==
    /\ <<b, i>> # <<c, j>>
    /\ backend[b][i].status = "completed" /\ backend[c][j].status = "completed"
    /\ backend[b][i].name = backend[c][j].name
    /\ backend[b][i].url # backend[c][j].url

\* C19 (as claimed): in part_001, when a response of the current batch
\* shows a completed job whose display name is that of another completed job
\* with a different result locator, the other one being in the history once,
\* both are in the history afterwards, each exactly once.
C19_SameNameBothPersisted ==
    [][\A b \in 1..MaxBatches :
          (RespondOk(b, <<Ok, Ok>>, FALSE) /\ b = currentBatchId /\ build = "cards")
          => \A i \in 1..Len(backend[b]), c \in 1..generation :
                \A j \in 1..Len(backend[c]) :
                    (/\ SameNameOtherResult(b, i, c, j)
                     /\ Cardinality(RecordsFor(processes, <<c, j>>)) = 1)
                    => /\ Cardinality(RecordsFor(processes', <<b, i>>)) = 1
                       /\ Cardinality(RecordsFor(processes', <<c, j>>)) = 1]_vars

\* ---------------------------------------------- properties of the save path
\* C20: every call of saveToDownloads has its name in the lock set at the
\* duplicate check and so over the write that follows it in the same
\* synchronous block, and however it ends (record found, no result URL,
\* record written, write failed, exception thrown) it leaves no name in the
\* lock set: between two tasks the lock set is empty, and no save is turned
\* away by the lock.
C20_LockAlwaysReleased ==
    /\ saveMutex = {}
    /\ ev.held
    /\ "busy" \notin ev.exits

\* C20: one poll response saved the first item and ran into the exception
\* on the second, a completed item without a result, and no name is locked.
C20_Witness ==
    /\ ev.op = "response"
    /\ {"saved", "threw"} \subseteq ev.exits
    /\ ev.held
    /\ saveMutex = {}

\* C21 (as claimed): at any time at most one status request of a poller is
\* unanswered.
C21_OneFetchInFlight == \A b \in 1..MaxBatches : inflight[b] <= 1

\* The step is a failed poll that stops a running poller.
StoppedForErrors ==
    /\ ev'.op = "response" /\ ~ev'.ok
    /\ pollInterval # 0 /\ pollInterval' = 0

\* C22 (as claimed): a successful status response sets the failure counter
\* to 0, and a failed poll stops the poller only when it is the fifth failed
\* response in a row.
C22_SuccessResetsFailureCount ==
    [][/\ Answered(ev'.batch) => pollErrorCount' = 0
       /\ StoppedForErrors => failRun' >= 5]_vars

\* ------------------------------------------- properties of the store, later
\* C23: saveProcess returns false for a record without a timestamp or
\* without a name and leaves the history and the storage as they were; a
\* record that goes into the history has an id when it is stored.
C23_InvalidRejectedIdAssigned ==
    [][SaveProcessStep
          => /\ (last'.pd.timestamp = 0 \/ last'.pd.name = NoName)
                => /\ last'.ret = "false" /\ ~last'.accepted
                   /\ UNCHANGED <<processes, localStorage>>
             /\ last'.accepted
                => /\ processes'[1].id # NoId
                   /\ last'.ret = "true" => localStorage'[MainKey].items[1].id # NoId]_vars

\* C23: a record without a required field was turned away from a history
\* whose newest record got its id from saveProcess.
C23_Witness ==
    /\ last.op = "saveProcess" /\ last.ret = "false" /\ ~last.accepted
    /\ last.pd.timestamp = 0 \/ last.pd.name = NoName
    /\ processes # <<>>
    /\ processes[1].id = <<processes[1].timestamp, idSeq>>
    /\ localStorage[MainKey].items = processes

\* C26: when the write of a saveProcess raises a quota error and the one
\* retry succeeds, saveProcess returns true and the history and the stored
\* blob both hold the new record followed by the 24 most recent of before.
C26_QuotaTrimRetrySucceeds ==
    [][(SaveProcessStep /\ last'.accepted /\ last'.quota /\ last'.ret = "true")
          => /\ processes' = Slice(<<last'.pd>> \o processes, 0, 25)
             /\ localStorage'[MainKey] = JSONstringify(processes')]_vars

\* C26: a history of more than 25 records was cut to 25 by a quota error
\* and stored by the retry.
C26_Witness ==
    /\ last.op = "saveProcess" /\ last.quota /\ last.ret = "true"
    /\ Len(processes) = 25
    /\ processes[1] = last.pd /\ processes[25].timestamp = 0 - 24
    /\ localStorage[MainKey].items = processes

\* s without its element at position index (from 0).
WithoutAt(s, index) == [k \in 1..(Len(s) - 1) |-> IF k <= index THEN s[k] ELSE s[k + 1]]

DeleteStep == last'.op = "deleteProcess" /\ now' = now

\* The indexes deleteProcess is called with.
DeleteIndexes == {-1, 1, Len(processes)}

\* C27 (amended): deleteProcess with an index outside 0..length-1 changes
\* neither the history nor the storage.  With a valid index it removes the
\* record at that position and keeps the order of the others; when the write
\* succeeds the storage holds the result; when the write raises a quota
\* error the result is cut to its 25 most recent records, stored if the retry
\* succeeds; when the write fails the storage keeps what it held.
C27_DeleteRemovesOne ==
    [][DeleteStep
          => \A index \in DeleteIndexes, o \in WriteOutcomes :
                DeleteProcess(index, o)
                => IF index >= 0 /\ index < Len(processes)
                   THEN /\ o[1] # Quota => processes' = WithoutAt(processes, index)
                        /\ o[1] = Quota
                           => processes' = Slice(WithoutAt(processes, index), 0, 25)
                        /\ IF o = <<Ok, Ok>> \/ o = <<Quota, Ok>>
                           THEN localStorage'[MainKey] = JSONstringify(processes')
                           ELSE UNCHANGED localStorage
                   ELSE UNCHANGED <<processes, localStorage>>]_vars

\* C27 (as claimed): deleteProcess with a valid index removes exactly the
\* record at that position, keeps the order of the others and stores the
\* result; with an index outside 0..length-1 it changes neither the history
\* nor the storage.
C27_DeleteAlwaysPersists ==
    [][DeleteStep
          => \A index \in DeleteIndexes, o \in WriteOutcomes :
                DeleteProcess(index, o)
                => IF index >= 0 /\ index < Len(processes)
                   THEN /\ processes' = WithoutAt(processes, index)
                        /\ localStorage'[MainKey] = JSONstringify(processes')
                   ELSE UNCHANGED <<processes, localStorage>>]_vars

\* C27: the second record of a full history was deleted and the rest
\* stored.
C27_Witness ==
    /\ last.op = "deleteProcess"
    /\ Len(processes) = HistoryLimit - 1
    /\ processes[1].timestamp = 0 - 1 /\ processes[2].timestamp = 0 - 3
    /\ localStorage[MainKey].items = processes

\* C28 (as claimed): a record for which saveProcess returned true is in the
\* history that loadProcesses reads from the storage.
C28_SavedRecordIsLoaded ==
    [][(SaveProcessStep /\ last'.ret = "true")
          => Has(Loaded(localStorage'), last'.pd)]_vars

\* C29 (as claimed): no two records of the history have the same id.
C29_IdsUnique ==
    \A i \in 1..Len(processes), j \in 1..Len(processes) :
        i # j => processes[i].id # processes[j].id

\* C24 (as claimed): the mode radios are disabled for as long as a bulk-run
\* request is unanswered, and enabled again once none is.
C24_ModeLockedWhileSubmitting == modeDisabled <=> submitting # <<>>

\* A response to a status request of an earlier batch is handled while the
\* schedule of the current batch is active.
SupersededResponse ==
    /\ ev'.op = "response"
    /\ inflight'[ev'.batch] < inflight[ev'.batch]
    /\ ev'.batch < currentBatchId
    /\ pollInterval = currentBatchId /\ currentBatchId \in timers

\* C30 (as claimed): a response of a superseded poll, whether it reports
\* completion or is the fifth failure, leaves the schedule of the current
\* batch active.
C30_SupersededResponseKeepsSchedule ==
    [][SupersededResponse => /\ pollInterval' = currentBatchId
                             /\ currentBatchId \in timers']_vars

\* The items of batch b whose snapshot is the one cached under the key of
\* the current batch and their index.
SameAsCached(b) ==
    {i \in 1..Len(backend[b]) :
        LET cached == videoItemsCache[<<currentBatchId, i>>]
        IN  cached.present /\ cached.data = VideoStr(backend[b][i])}

\* C25: when a status response delivers an item whose snapshot is identical
\* to the one cached for (batch id, index), the update emits no change for
\* it: its cache entry stays as it was, it is not written to the page again
\* and no save is made for it (bulkMode.js).
C25_UnchangedItemSkipped ==
    [][(Answered(ev'.batch) /\ build = "diff") =>
          LET b == ev'.batch
          IN  /\ \A i \in SameAsCached(b) :
                    /\ videoItemsCache'[<<currentBatchId, i>>]
                           = videoItemsCache[<<currentBatchId, i>>]
                    /\ Cardinality(RecordsFor(processes', <<b, i>>))
                           = Cardinality(RecordsFor(processes, <<b, i>>))
              /\ ev'.drawn = Len(backend[b]) - Cardinality(SameAsCached(b))]_vars

\* A response of which one item was written to the page and the others,
\* unchanged since the response before, were skipped; the history holds a
\* record.
C25_Witness ==
    /\ build = "diff"
    /\ ev.op = "response" /\ ev.ok
    /\ ev.drawn = 1 /\ Len(backend[ev.batch]) >= 2
    /\ processes # <<>>

\* C31: a stopped poller is not resurrected.  Once the schedule handle is
\* null, every step other than a startPolling (responses of fetches still in
\* flight, successful or failed, and teardown) leaves the handle null and no
\* timer alive.
C31_StoppedStaysStopped ==
    [][(pollInterval = 0 /\ generation' = generation)
          => (pollInterval' = 0 /\ timers' = {})]_vars

\* A failed response of a fetch that was still in flight has been handled
\* after the poller of its batch had stopped.
C31_Witness ==
    /\ ev.op = "response" /\ ~ev.ok /\ ~ev.live
    /\ generation >= 1
    /\ pollInterval = 0 /\ timers = {}

\* C32 (as claimed): the poll failure counter is between 0 and 5 in every
\* reachable state.
C32_FailureCountBounded == pollErrorCount \in 0..PollErrorLimit

\* C33 (as claimed): within one batch the saved flag of a cache entry is
\* monotonic: an entry whose flag is true keeps a true flag through every
\* step that is not a startPolling, whatever the later snapshots of the item
\* contain.
C33_SavedFlagMonotonic ==
    [][generation' = generation =>
          \A k \in CacheKeys :
              (videoItemsCache[k].present /\ videoItemsCache[k].saved)
                  => videoItemsCache'[k].saved]_vars

\* The items of batch b that the step marks as saved: the name joins
\* savedDownloads (cards) or the saved flag of the cache entry becomes true
\* (diff).
NewlyMarked(b) ==
    {i \in 1..Len(backend[b]) :
        \/ /\ build = "cards"
           /\ backend[b][i].name \in savedDownloads' \ savedDownloads
        \/ /\ build = "diff"
           /\ videoItemsCache'[<<currentBatchId, i>>].saved
           /\ ~videoItemsCache[<<currentBatchId, i>>].saved}

\* C34 (as claimed): an item is marked as saved only if the history store
\* accepted a record for it (saveProcess returned true, so the record was
\* written): after a response that marks an item, the stored history holds
\* a record made for that item.
C34_MarkedOnlyIfStored ==
    [][Answered(ev'.batch) =>
          \A i \in NewlyMarked(ev'.batch) :
              RecordsFor(ParsedArray(localStorage'[MainKey]), <<ev'.batch, i>>) # {}]_vars

\* C35 (as claimed): whenever saveProcess returns false (invalid record,
\* duplicate or failed write) the in-memory history is what it was before
\* the call.
C35_FalseLeavesMemory ==
    [][(SaveProcessStep /\ last'.ret = "false") => processes' = processes]_vars

\* C36 (as claimed): after every saveProcess that returns true and after
\* every deleteProcess with a valid index, the stored string parses to
\* exactly the in-memory history, record for record and in the same order.
C36_BlobEqualsMemory ==
    [][\/ SaveProcessStep /\ last'.ret = "true"
       \/ DeleteStep /\ processes' # processes
       => ParsedArray(localStorage'[MainKey]) = processes']_vars

\* C37 (as claimed): at most one bulk-run request is unanswered at any
\* time, and at most one interval timer is live.
C37_OneSubmissionInFlight ==
    /\ Len(submitting) <= 1
    /\ Cardinality(timers) <= 1

\* Every item of the server's batch b has reached a final status.
AllFinal(b) == \A i \in 1..Len(backend[b]) : backend[b][i].status \in FinalStatuses

\* C38 (as claimed): polling terminates.  With the timer firing and every
\* request resolving, the poller of a batch whose items have all reached a
\* final status (completed, failed or cancelled) is eventually stopped.
C38_PollingTerminates ==
    \A b \in 1..MaxBatches : (pollInterval = b /\ AllFinal(b)) ~> (pollInterval # b)

====
